---- MODULE Spec2Model ----
(***************************************************************************)
(* Model of comprehensive_30sec_generator.py: the segment planner          *)
(* (calculate_all_clip_segments), the per-clip encoder                     *)
(* (_create_30sec_clip), the batch loop (create_all_30sec_clips), the      *)
(* request handler (generate_shorts) and the global progress record.       *)
(* Times are whole seconds; one request is handled at a time.              *)
(***************************************************************************)
EXTENDS Integers, Sequences, FiniteSets, TLC

\* ---------------------------------------------------------------- bounds
\* Largest video duration the planner is applied to (covers the 100-clip cap,
\* reached from 99*25+30 = 2505 s on).
MaxDuration == 2600
\* Under a modified Config the planner gets videos of one clip length plus
\* 0..MaxCfgExtra seconds.
MaxCfgExtra == 40
\* A batch run gets a video of 0, 5, 10, ... up to 5 * MaxRunSteps seconds
\* (plans of up to three windows).
MaxRunSteps == 16
\* Number of requests the server receives.
MaxRuns == 2

\* ----------------------------------------------------- class Config (46-67)
CLIP_DURATION == 30
OVERLAP_DURATION == 5
MIN_CLIP_DURATION == 25
MAX_CLIPS_PER_VIDEO == 100
\* _create_30sec_clip's minimum output size in bytes and its timeout in seconds
MIN_FILE_SIZE == 500000

Config ==
    [CLIP_DURATION |-> CLIP_DURATION,
     OVERLAP_DURATION |-> OVERLAP_DURATION,
     MIN_CLIP_DURATION |-> MIN_CLIP_DURATION,
     MAX_CLIPS_PER_VIDEO |-> MAX_CLIPS_PER_VIDEO]

\* Config with the class attribute OVERLAP_DURATION reassigned.
ConfigWithOverlap(o) == [Config EXCEPT !.OVERLAP_DURATION = o]

\* Overlap settings tried by the planner: the shipped one, overlap = clip
\* length (step 0) and overlap > clip length (step < 0).
OverlapChoices == {OVERLAP_DURATION, CLIP_DURATION, CLIP_DURATION + OVERLAP_DURATION}

VARIABLES
    cfg,               \* the Config class attributes in force
    video_duration,    \* clip.duration of the downloaded file, whole seconds
    metadata_duration, \* metadata['duration'] as reported by the downloader
    start_time,        \* calculate_all_clip_segments: local start_time
    clip_count,        \* calculate_all_clip_segments: local clip_count
    segments,          \* calculate_all_clip_segments: local segments, then its return value
    pc,                \* position of the control flow
    i,                 \* loop index of create_all_30sec_clips (0-based)
    created_clips,     \* the list built by create_all_30sec_clips
    outcome,           \* what the current ffmpeg call did
    success,           \* return value of the last _create_30sec_clip call
    events,            \* history: start and end of every _create_30sec_clip call of the run
    attempts,          \* history: clip number and ffmpeg outcome of every call of the run
    report,            \* the report built by generate_comprehensive_report
    progress_state,    \* the global progress record
    err,               \* the exception being handled by generate_shorts
    response,          \* what generate_shorts returned
    runs               \* number of requests received so far

vars == <<cfg, video_duration, metadata_duration, start_time, clip_count, segments, pc, i, created_clips,
          outcome, success, events, attempts, report, progress_state, err, response,
          runs>>

\* everything but the planner's input and output
runvars == <<metadata_duration, i, created_clips, outcome, success, events, attempts,
             report, progress_state, err, response, runs>>

Min(a, b) == IF a < b THEN a ELSE b

\* Python's None
None == "None"

\* the handler holds no report before generate_comprehensive_report returns
NoReport == [kind |-> None]

\* ------------------------------------------- calculate_all_clip_segments
\* line 135
StepSizeNoOverlap(c) == c.CLIP_DURATION
step_size(c) == c.CLIP_DURATION - c.OVERLAP_DURATION

\* line 139: the while condition
LoopGuardNoCap(c, duration, start, count) ==
    start < duration
LoopGuard(c, duration, start, count) ==
    start < duration /\ count < c.MAX_CLIPS_PER_VIDEO

\* line 143: does the clip starting at start run past the end of the video
PastEndNever(c, duration, start) == FALSE
PastEndInclusive(c, duration, start) == start + c.CLIP_DURATION >= duration
PastEnd(c, duration, start) == start + c.CLIP_DURATION > duration

\* line 149: is the truncated last clip long enough
KeepFinalAny(c, actual_duration) == actual_duration > 0
KeepFinalStrict(c, actual_duration) == actual_duration > c.MIN_CLIP_DURATION
KeepFinal(c, actual_duration) == actual_duration >= c.MIN_CLIP_DURATION

\* lines 150-156: the truncated last clip
FinalSegmentUnnumbered(c, duration, start, count) ==
    [start_time |-> start,
     end_time |-> duration,
     duration |-> duration - start,
     clip_number |-> count,
     is_final_clip |-> TRUE]
FinalSegment(c, duration, start, count) ==
    [start_time |-> start,
     end_time |-> duration,
     duration |-> duration - start,
     clip_number |-> count + 1,
     is_final_clip |-> TRUE]

\* lines 160-166: a full-length clip
FullSegment(c, start, count) ==
    [start_time |-> start,
     end_time |-> start + c.CLIP_DURATION,
     duration |-> c.CLIP_DURATION,
     clip_number |-> count + 1,
     is_final_clip |-> FALSE]

\* --------------------------------------------------- the progress record
\* A message: its fixed text and the numbers formatted into it.
Msg(text, a, b) == [text |-> text, a |-> a, b |-> b]

\* lines 361-368
InitialProgress ==
    [status |-> "idle", message |-> Msg("", 0, 0), progress |-> 0,
     total_clips |-> 0, current_clip |-> 0, error |-> None]

UpdateProgressKeepError(status, message, progress, total_clips, current_clip) ==
    [status |-> status, message |-> message, progress |-> progress,
     total_clips |-> total_clips, current_clip |-> current_clip,
     error |-> progress_state.error]

\* lines 370-381: one dict.update call replacing all six fields
update_progress(status, message, progress, total_clips, current_clip) ==
    [status |-> status, message |-> message, progress |-> progress,
     total_clips |-> total_clips, current_clip |-> current_clip, error |-> None]

\* --------------------------------------------------------------- Idle
\* State of the variables the run does not touch before its first request.
IdleRun ==
    /\ metadata_duration = 0
    /\ i = 0
    /\ created_clips = <<>>
    /\ outcome = None
    /\ success = None
    /\ events = <<>>
    /\ attempts = <<>>
    /\ report = NoReport
    /\ progress_state = InitialProgress
    /\ err = None
    /\ response = None
    /\ runs = 0

\* ------------------------------------ calculate_all_clip_segments, stepwise
\* lines 132-138: entry, the locals are initialised
PlanLocalsInit ==
    /\ segments' = <<>>
    /\ start_time' = 0
    /\ clip_count' = 0

\* lines 139-143, 160-170: an iteration that adds a full-length clip
PlanIterFull ==
    /\ pc = "plan_loop"
    /\ LoopGuard(cfg, video_duration, start_time, clip_count)
    /\ ~PastEnd(cfg, video_duration, start_time)
    /\ segments' = Append(segments, FullSegment(cfg, start_time, clip_count))
    /\ start_time' = start_time + step_size(cfg)
    /\ clip_count' = clip_count + 1
    /\ UNCHANGED <<cfg, video_duration, pc>>
    /\ UNCHANGED runvars

\* lines 139-157: the iteration that reaches past the end of the video: the
\* truncated clip is kept if long enough, then break
PlanIterFinal ==
    /\ pc = "plan_loop"
    /\ LoopGuard(cfg, video_duration, start_time, clip_count)
    /\ PastEnd(cfg, video_duration, start_time)
    /\ segments' =
          IF KeepFinal(cfg, video_duration - start_time)
          THEN Append(segments, FinalSegment(cfg, video_duration, start_time, clip_count))
          ELSE segments
    /\ pc' = "planned"
    /\ UNCHANGED <<cfg, video_duration, start_time, clip_count>>
    /\ UNCHANGED runvars

\* lines 139, 172-173: the while condition fails, segments is returned
PlanExit ==
    /\ pc = "plan_loop"
    /\ ~LoopGuard(cfg, video_duration, start_time, clip_count)
    /\ pc' = "planned"
    /\ UNCHANGED <<cfg, video_duration, start_time, clip_count, segments>>
    /\ UNCHANGED runvars

\* lines 130-173
calculate_all_clip_segments == PlanIterFull \/ PlanIterFinal \/ PlanExit

\* ------------------------------------------------------ _create_30sec_clip
\* Sizes of the output file tried: empty, exactly the threshold, one byte more.
FileSizes == {0, MIN_FILE_SIZE, MIN_FILE_SIZE + 1}

\* What subprocess.run (lines 284-289) and the file system can do: the call
\* returns with an exit status, or raises TimeoutExpired, or raises another
\* exception (no exit status is obtained then; returncode is set to 1); the
\* output file exists with some size, or does not exist.
Outcomes ==
    {o \in [raised : {"none", "TimeoutExpired", "Exception"},
            returncode : {0, 1},
            exists : BOOLEAN,
            file_size : FileSizes] :
        /\ o.raised # "none" => o.returncode = 1
        /\ ~o.exists => o.file_size = 0}

\* line 294
BigEnoughInclusive(file_size) == file_size >= MIN_FILE_SIZE
BigEnough(file_size) == file_size > MIN_FILE_SIZE

\* lines 243, 304-309: the two except clauses turn every exception into False
Handled(o) == o.raised \in {"TimeoutExpired", "Exception"}

\* lines 284-309: the value returned for an outcome of the ffmpeg call;
\* "raised" stands for an exception leaving the function
create_30sec_clip(o) ==
    IF o.raised # "none"
    THEN IF Handled(o) THEN "False" ELSE "raised"
    ELSE IF o.returncode = 0 /\ o.exists
         THEN IF BigEnough(o.file_size) THEN "True" ELSE "False"
         ELSE "False"

\* ------------------------------------------------------- generate_shorts
Idle ==
    /\ cfg = Config
    /\ video_duration = 0
    /\ start_time = 0
    /\ clip_count = 0
    /\ segments = <<>>
    /\ pc = "idle"
    /\ IdleRun

\* The locals of a fresh call of the handler.
FreshLocals ==
    /\ video_duration' = 0
    /\ metadata_duration' = 0
    /\ start_time' = 0
    /\ clip_count' = 0
    /\ segments' = <<>>
    /\ i' = 0
    /\ created_clips' = <<>>
    /\ outcome' = None
    /\ success' = None
    /\ events' = <<>>
    /\ attempts' = <<>>
    /\ report' = NoReport

planlocals == <<start_time, clip_count, segments>>
batchlocals == <<i, created_clips, outcome, success, events, attempts>>

\* lines 396-397: the body is no JSON object, data.get raises
RequestBadBody ==
    /\ pc = "idle"
    /\ runs < MaxRuns
    /\ runs' = runs + 1
    /\ FreshLocals
    /\ err' = "AttributeError"
    /\ response' = None
    /\ pc' = "except"
    /\ UNCHANGED <<cfg, progress_state>>

\* lines 400-401: no url in the body
RequestNoUrl ==
    /\ pc = "idle"
    /\ runs < MaxRuns
    /\ runs' = runs + 1
    /\ FreshLocals
    /\ err' = None
    /\ response' = "400"
    /\ pc' = "idle"
    /\ UNCHANGED <<cfg, progress_state>>

\* lines 396-404: a request with a url; progress is reset
RequestUrl ==
    /\ pc = "idle"
    /\ runs < MaxRuns
    /\ runs' = runs + 1
    /\ FreshLocals
    /\ err' = None
    /\ response' = None
    /\ progress_state' = update_progress("downloading", Msg("Starting download...", 0, 0), 0, 0, 0)
    /\ pc' = "start_download"
    /\ UNCHANGED cfg

\* a milestone of the handler: one update_progress call, then on to the next position
Milestone(from, to, p) ==
    /\ pc = from
    /\ progress_state' = p
    /\ pc' = to
    /\ UNCHANGED <<cfg, video_duration, metadata_duration, planlocals, batchlocals,
                   report, err, response, runs>>

\* line 413
StartDownload ==
    Milestone("start_download", "download",
              update_progress("downloading", Msg("Downloading YouTube video...", 0, 0), 10, 0, 0))

\* Download percentages reported to progress_hook.
HookPercents == {0, 50, 100}

\* lines 85-91: progress_hook while downloading
HookDownloading ==
    \E percentage \in HookPercents :
        Milestone("download", "download",
                  update_progress("downloading", Msg("Downloading...", percentage, 0),
                                  10 + (percentage * 2) \div 10, 0, 0))

\* lines 94-95: progress_hook when the download has finished
HookFinished ==
    Milestone("download", "download",
              update_progress("downloading", Msg("Download complete, processing...", 0, 0),
                              30, 0, 0))

\* lines 105-124: download_video returns; the file has some duration, and the
\* metadata carries it or, when the downloader does not report one, 0
DownloadOk ==
    /\ pc = "download"
    /\ \E d \in {5 * k : k \in 0..MaxRunSteps} :
          /\ video_duration' = d
          /\ metadata_duration' \in {0, d}
    /\ pc' = "downloaded"
    /\ UNCHANGED <<cfg, planlocals, batchlocals, report, progress_state, err, response,
                   runs>>

DownloadFailSwallowed ==
    /\ pc = "download"
    /\ err' = "DownloadError"
    /\ pc' = "downloaded"
    /\ UNCHANGED <<cfg, video_duration, metadata_duration, planlocals, batchlocals,
                   report, progress_state, response, runs>>

\* lines 126-128: download_video re-raises
DownloadFail ==
    /\ pc = "download"
    /\ err' = "DownloadError"
    /\ pc' = "except"
    /\ UNCHANGED <<cfg, video_duration, metadata_duration, planlocals, batchlocals,
                   report, progress_state, response, runs>>

\* line 415
DownloadComplete ==
    Milestone("downloaded", "calculating",
              update_progress("downloading", Msg("Download complete!", 0, 0), 30, 0, 0))

\* line 418
Calculating ==
    Milestone("calculating", "estimate",
              update_progress("processing", Msg("Calculating clip segments...", 0, 0), 35, 0, 0))

\* lines 428-429
ExpectedClipsByClipLength(duration) ==
    Min(duration \div Config.CLIP_DURATION, Config.MAX_CLIPS_PER_VIDEO)
expected_clips(duration) ==
    Min(duration \div step_size(Config) + 1, Config.MAX_CLIPS_PER_VIDEO)

\* lines 421-430: the duration is read and the estimate published
EstimateOk ==
    Milestone("estimate", "batch",
              update_progress("processing",
                              Msg("Generating N shorts...", expected_clips(video_duration), 0),
                              40, expected_clips(video_duration), 0))

\* lines 431-432: reading the duration failed
EstimateFail ==
    Milestone("estimate", "batch",
              update_progress("processing", Msg("Generating shorts...", 0, 0), 40, 0, 0))

\* ------------------------------------------------ create_all_30sec_clips
\* lines 183-189: the duration cannot be read, [] is returned
BatchProbeFail ==
    /\ pc = "batch"
    /\ created_clips' = <<>>
    /\ pc' = "report_msg"
    /\ UNCHANGED <<cfg, video_duration, metadata_duration, planlocals, i, outcome,
                   success, events, attempts, report, progress_state, err, response,
                   runs>>

\* lines 183-192: the duration is read and the planner is called
BatchPlan ==
    /\ pc = "batch"
    /\ PlanLocalsInit
    /\ pc' = "plan_loop"
    /\ UNCHANGED <<cfg, video_duration>>
    /\ UNCHANGED runvars

\* lines 194-196: the plan is empty, [] is returned
BatchNoSegments ==
    /\ pc = "planned"
    /\ segments = <<>>
    /\ created_clips' = <<>>
    /\ pc' = "report_msg"
    /\ UNCHANGED <<cfg, video_duration, metadata_duration, planlocals, i, outcome,
                   success, events, attempts, report, progress_state, err, response,
                   runs>>

\* lines 199-202: the loop over the plan begins
BatchStart ==
    /\ pc = "planned"
    /\ segments # <<>>
    /\ created_clips' = <<>>
    /\ i' = 0
    /\ pc' = "loop"
    /\ UNCHANGED <<cfg, video_duration, metadata_duration, planlocals, outcome,
                   success, events, attempts, report, progress_state, err, response,
                   runs>>

ProgressPercentOneBased(idx, total) == 40 + ((idx + 1) * 50) \div total

\* line 208
progress_percent(idx, total) == 40 + (idx * 50) \div total

\* lines 202-209: the next segment is taken and progress published
LoopProgress ==
    /\ pc = "loop"
    /\ i < Len(segments)
    /\ progress_state' =
          update_progress("processing", Msg("Generating clip", i + 1, Len(segments)),
                          progress_percent(i, Len(segments)), Len(segments), i + 1)
    /\ pc' = "invoke"
    /\ UNCHANGED <<cfg, video_duration, metadata_duration, planlocals, batchlocals,
                   report, err, response, runs>>

\* lines 216-218, 244-289: _create_30sec_clip is entered and ffmpeg started
Invoke ==
    /\ pc = "invoke"
    /\ events' = Append(events, [ev |-> "invoke", clip |-> segments[i + 1].clip_number])
    /\ pc' = "ffmpeg"
    /\ UNCHANGED <<cfg, video_duration, metadata_duration, planlocals, i, created_clips,
                   outcome, success, attempts, report, progress_state, err, response,
                   runs>>

\* lines 284-289: the ffmpeg call ends, one way or another
TranscodeReturns ==
    /\ pc = "ffmpeg"
    /\ outcome' \in Outcomes
    /\ attempts' = Append(attempts, [clip |-> segments[i + 1].clip_number,
                                     outcome |-> outcome'])
    /\ pc' = "validate"
    /\ UNCHANGED <<cfg, video_duration, metadata_duration, planlocals, i, created_clips,
                   success, events, report, progress_state, err, response, runs>>

\* lines 291-309: the output is validated and _create_30sec_clip returns
Validate ==
    /\ pc = "validate"
    /\ success' = create_30sec_clip(outcome)
    /\ events' = Append(events, [ev |-> "done", clip |-> segments[i + 1].clip_number])
    /\ pc' = "collect"
    /\ UNCHANGED <<cfg, video_duration, metadata_duration, planlocals, i, created_clips,
                   outcome, attempts, report, progress_state, err, response, runs>>

\* lines 221-229: the entry appended for a created clip
ClipEntry(segment, file_size) ==
    [clip_number |-> segment.clip_number,
     start_time |-> segment.start_time,
     end_time |-> segment.end_time,
     duration |-> segment.duration,
     file_size |-> file_size]

\* lines 220-236: what the loop body does with the result of _create_30sec_clip:
\* append on True, log on False, and the except clause swallows an exception
Collected(result, clips, segment, file_size) ==
    IF result = "True"
    THEN Append(clips, ClipEntry(segment, file_size))
    ELSE clips

\* lines 202, 236: where the loop goes after a segment
AfterSegmentStopOnFailure(result, idx, total) ==
    IF result = "True" THEN idx + 1 ELSE total
AfterSegmentRetryOnFailure(result, idx, total) ==
    IF result = "True" THEN idx + 1 ELSE idx
AfterSegment(result, idx, total) == idx + 1

\* lines 220-236: the result is collected, on to the next segment
Collect ==
    /\ pc = "collect"
    /\ created_clips' = Collected(success, created_clips, segments[i + 1], outcome.file_size)
    /\ i' = AfterSegment(success, i, Len(segments))
    /\ pc' = "loop"
    /\ UNCHANGED <<cfg, video_duration, metadata_duration, planlocals, outcome, success,
                   events, attempts, report, progress_state, err, response, runs>>

\* lines 202, 238-239: the plan is exhausted, created_clips is returned
LoopDone ==
    /\ pc = "loop"
    /\ i >= Len(segments)
    /\ pc' = "report_msg"
    /\ UNCHANGED <<cfg, video_duration, metadata_duration, planlocals, batchlocals,
                   report, progress_state, err, response, runs>>

create_all_30sec_clips ==
    \/ BatchProbeFail
    \/ BatchPlan
    \/ calculate_all_clip_segments
    \/ BatchNoSegments
    \/ BatchStart
    \/ LoopProgress
    \/ Invoke
    \/ TranscodeReturns
    \/ Validate
    \/ Collect
    \/ LoopDone

\* --------------------------------------------- report and end of the run
\* line 436
ReportMilestone ==
    Milestone("report_msg", "report",
              update_progress("processing", Msg("Creating final report...", 0, 0), 90, 0, 0))

RECURSIVE SumDurations(_)
SumDurations(clips) ==
    IF clips = <<>> THEN 0 ELSE Head(clips).duration + SumDurations(Tail(clips))

\* line 339: round(x, 2) of the quotient n / d, held as a whole number of
\* hundredths (8571 is 85.71)
RoundHundredths(n, d) == (2 * 100 * n + d) \div (2 * d)

CoveragePercentageTruncated(total_duration, duration) ==
    IF duration > 0 THEN (100 * 100 * total_duration) \div duration ELSE 0

\* lines 331, 339: the share of the source the clips add up to, as a
\* percentage rounded to two decimals, and 0 when the metadata carries no
\* positive duration
coverage_percentage(total_duration, duration) ==
    IF duration > 0 THEN RoundHundredths(total_duration * 100, duration) ELSE 0

\* lines 325-326, 439-443: no clip: the function returns the text "No clips
\* were created", which the handler then opens as a file
ReportEmpty ==
    /\ pc = "report"
    /\ created_clips = <<>>
    /\ report' = [kind |-> "message", report_path |-> "No clips were created"]
    /\ err' = "FileNotFoundError"
    /\ pc' = "except"
    /\ UNCHANGED <<cfg, video_duration, metadata_duration, planlocals, batchlocals,
                   progress_state, response, runs>>

\* lines 328-358, 439-443: the report is built, written and read back
ReportBuilt ==
    /\ pc = "report"
    /\ created_clips # <<>>
    /\ report' = [kind |-> "report",
                  total_clips_created |-> Len(created_clips),
                  total_duration_generated |-> SumDurations(created_clips),
                  original_video_duration |-> metadata_duration,
                  video_coverage_percentage |->
                      coverage_percentage(SumDurations(created_clips), metadata_duration)]
    /\ pc' = "complete"
    /\ UNCHANGED <<cfg, video_duration, metadata_duration, planlocals, batchlocals,
                   progress_state, err, response, runs>>

\* lines 354-356: the report cannot be written under output_dir
ReportWriteFail ==
    /\ pc = "report"
    /\ created_clips # <<>>
    /\ err' = "OSError"
    /\ pc' = "except"
    /\ UNCHANGED <<cfg, video_duration, metadata_duration, planlocals, batchlocals,
                   report, progress_state, response, runs>>

\* lines 445-446
Complete ==
    /\ pc = "complete"
    /\ progress_state' =
          update_progress("complete", Msg("Successfully generated", Len(created_clips), 0),
                          100, Len(created_clips), Len(created_clips))
    /\ response' = "report"
    /\ pc' = "idle"
    /\ UNCHANGED <<cfg, video_duration, metadata_duration, planlocals, batchlocals,
                   report, err, runs>>

\* line 450
ExceptStatus ==
    /\ pc = "except"
    /\ progress_state' = [progress_state EXCEPT !.status = "error"]
    /\ pc' = "except_error"
    /\ UNCHANGED <<cfg, video_duration, metadata_duration, planlocals, batchlocals,
                   report, err, response, runs>>

\* lines 451-452
ExceptError ==
    /\ pc = "except_error"
    /\ progress_state' = [progress_state EXCEPT !.error = err]
    /\ response' = "500"
    /\ pc' = "idle"
    /\ UNCHANGED <<cfg, video_duration, metadata_duration, planlocals, batchlocals,
                   report, err, runs>>

\* lines 387-390: what a poll of /progress returns: the record as it stands,
\* serialised in one step
get_progress == progress_state

\* lines 387-390: a poll may arrive between any two steps of the handler; it
\* reads the record and changes nothing
Poll == UNCHANGED vars

\* lines 393-452
generate_shorts ==
    \/ RequestBadBody
    \/ RequestNoUrl
    \/ RequestUrl
    \/ StartDownload
    \/ HookDownloading
    \/ HookFinished
    \/ DownloadOk
    \/ DownloadFail
    \/ DownloadComplete
    \/ Calculating
    \/ EstimateOk
    \/ EstimateFail
    \/ create_all_30sec_clips
    \/ ReportMilestone
    \/ ReportEmpty
    \/ ReportBuilt
    \/ ReportWriteFail
    \/ Complete
    \/ ExceptStatus
    \/ ExceptError

Init == Idle
Next == generate_shorts \/ Poll
Spec == Init /\ [][Next]_vars

\* The steps the handler's own thread takes once a request is in: every
\* statement of generate_shorts after the request is read, the return of the
\* download and the return of each ffmpeg call (subprocess.run has a timeout,
\* line 288). The arrival of a request and the calls of progress_hook are
\* left out: nothing obliges the client or the downloader to make them.
HandlerStep ==
    \/ StartDownload
    \/ DownloadOk
    \/ DownloadFail
    \/ DownloadComplete
    \/ Calculating
    \/ EstimateOk
    \/ EstimateFail
    \/ create_all_30sec_clips
    \/ ReportMilestone
    \/ ReportEmpty
    \/ ReportBuilt
    \/ ReportWriteFail
    \/ Complete
    \/ ExceptStatus
    \/ ExceptError

\* The handler keeps running until it returns, and the calls it waits for
\* come back.
Fairness == WF_vars(HandlerStep)

SpecFair == Spec /\ Fairness

\* ------------------------------------------------ planner specifications
\* The planner called on every duration 0..MaxDuration under the shipped Config.
InitPlan ==
    /\ cfg = Config
    /\ video_duration \in 0..MaxDuration
    /\ start_time = 0
    /\ clip_count = 0
    /\ segments = <<>>
    /\ pc = "plan_loop"
    /\ IdleRun

\* The planner called under a Config whose overlap was changed.
InitPlanCfg ==
    /\ cfg \in {ConfigWithOverlap(o) : o \in OverlapChoices}
    /\ video_duration \in {CLIP_DURATION + d : d \in 0..MaxCfgExtra}
    /\ start_time = 0
    /\ clip_count = 0
    /\ segments = <<>>
    /\ pc = "plan_loop"
    /\ IdleRun

NextPlan == calculate_all_clip_segments

SpecPlan == InitPlan /\ [][NextPlan]_vars
SpecPlanCfg == InitPlanCfg /\ [][NextPlan]_vars

\* ------------------------------------------------- claims on the planner
\* A planned window as the interval it covers and its final mark.
Window(s) ==
    [start_time |-> s.start_time, end_time |-> s.end_time,
     is_final_clip |-> s.is_final_clip]
Windows(segs) == [j \in 1..Len(segs) |-> Window(segs[j])]

\* The reference plan for the shipped parameters: one full window per k >= 0
\* with k*step + target_length <= total_duration, then one final window
\* [t, total_duration) at the next start t if total_duration - t >= min_length.
RefFullCount(duration) ==
    Cardinality({k \in 0..(duration \div (CLIP_DURATION - OVERLAP_DURATION)) :
                    k * (CLIP_DURATION - OVERLAP_DURATION) + CLIP_DURATION <= duration})
RefNextStart(duration) == RefFullCount(duration) * (CLIP_DURATION - OVERLAP_DURATION)
RefFull(duration) ==
    [k \in 1..RefFullCount(duration) |->
        [start_time |-> (k - 1) * (CLIP_DURATION - OVERLAP_DURATION),
         end_time |-> (k - 1) * (CLIP_DURATION - OVERLAP_DURATION) + CLIP_DURATION,
         is_final_clip |-> FALSE]]
RefPlan(duration) ==
    IF duration - RefNextStart(duration) >= MIN_CLIP_DURATION
    THEN Append(RefFull(duration),
                [start_time |-> RefNextStart(duration), end_time |-> duration,
                 is_final_clip |-> TRUE])
    ELSE RefFull(duration)

\* C1 as stated: for every total_duration >= 0 the planner returns exactly the
\* reference plan (all full windows that fit, then the final window if it is
\* at least min_length long), and nothing else.
C1_ExactReferencePlan ==
    pc = "planned" => Windows(segments) = RefPlan(video_duration)

\* C1 amended: the planner returns the reference plan cut to its first
\* max_windows (100) windows; duration 100 gives starts 0,25,50,75 with
\* [75,100) final, duration 40 gives the single window [0,30).
C1_ReferencePlanUpToCap ==
    pc = "planned" =>
        /\ Windows(segments) =
              SubSeq(RefPlan(video_duration), 1,
                     Min(Len(RefPlan(video_duration)), MAX_CLIPS_PER_VIDEO))
        /\ video_duration = 100 =>
              Windows(segments) =
                 << [start_time |-> 0, end_time |-> 30, is_final_clip |-> FALSE],
                    [start_time |-> 25, end_time |-> 55, is_final_clip |-> FALSE],
                    [start_time |-> 50, end_time |-> 80, is_final_clip |-> FALSE],
                    [start_time |-> 75, end_time |-> 100, is_final_clip |-> TRUE] >>
        /\ video_duration = 40 =>
              Windows(segments) =
                 << [start_time |-> 0, end_time |-> 30, is_final_clip |-> FALSE] >>

\* C1 witness: a duration whose reference plan has 101 windows, planned as 100.
C1_Witness ==
    /\ pc = "planned"
    /\ Len(RefPlan(video_duration)) = MAX_CLIPS_PER_VIDEO + 1
    /\ Len(segments) = MAX_CLIPS_PER_VIDEO

\* C2: start times strictly increase, every end_time is <= total_duration, and
\* clip_number is 1..N in list order (the final truncated window included).
C2_OrderedBoundedNumbered ==
    pc = "planned" =>
        /\ \A j \in 1..(Len(segments) - 1) :
              segments[j].start_time < segments[j + 1].start_time
        /\ \A j \in 1..Len(segments) :
              /\ segments[j].end_time <= video_duration
              /\ segments[j].clip_number = j

\* C2 witness: a plan of several windows ending in a final truncated one.
C2_Witness ==
    /\ pc = "planned"
    /\ Len(segments) >= 3
    /\ segments[Len(segments)].is_final_clip
    /\ segments[Len(segments)].clip_number = Len(segments)

\* C3: every window not marked final lasts exactly target_length; at most one
\* window is marked final, it is the last one, and its duration d satisfies
\* min_length <= d < target_length.
C3_Durations ==
    pc = "planned" =>
        \A j \in 1..Len(segments) :
            /\ segments[j].duration = segments[j].end_time - segments[j].start_time
            /\ ~segments[j].is_final_clip => segments[j].duration = CLIP_DURATION
            /\ segments[j].is_final_clip =>
                  /\ j = Len(segments)
                  /\ MIN_CLIP_DURATION <= segments[j].duration
                  /\ segments[j].duration < CLIP_DURATION

\* C3 witness: a plan whose last window is final and 27 s long, after full ones.
C3_Witness ==
    /\ pc = "planned"
    /\ Len(segments) >= 2
    /\ segments[Len(segments)].is_final_clip
    /\ segments[Len(segments)].duration = MIN_CLIP_DURATION + 2
    /\ ~segments[1].is_final_clip

\* C4: consecutive windows start exactly step = target_length - overlap apart,
\* so window j ends overlap seconds after window j+1 starts; the pair ending in
\* the final truncated window included.
C4_ConsecutiveStep ==
    pc = "planned" =>
        \A j \in 1..(Len(segments) - 1) :
            /\ segments[j + 1].start_time =
                  segments[j].start_time + (CLIP_DURATION - OVERLAP_DURATION)
            /\ segments[j].end_time - segments[j + 1].start_time = OVERLAP_DURATION

\* C4 witness: a pair of consecutive windows whose second one is final.
C4_Witness ==
    /\ pc = "planned"
    /\ Len(segments) = 2
    /\ segments[2].is_final_clip
    /\ segments[2].start_time = segments[1].start_time + 25

\* C5: the plan never has more than max_windows windows.
C5_AtMostMaxWindows ==
    pc = "planned" => Len(segments) <= MAX_CLIPS_PER_VIDEO

\* C5 witness: a duration with room for a 101st full window, planned as 100.
C5_Witness ==
    /\ pc = "planned"
    /\ video_duration >=
          MAX_CLIPS_PER_VIDEO * (CLIP_DURATION - OVERLAP_DURATION) + CLIP_DURATION
    /\ Len(segments) = MAX_CLIPS_PER_VIDEO

\* C6: a total_duration below min_length (0 included) gives the empty plan,
\* returned normally.
C6_ShortVideoEmptyPlan ==
    video_duration < MIN_CLIP_DURATION =>
        /\ segments = <<>>
        /\ pc = "planned" \/ ENABLED calculate_all_clip_segments

\* C6 witness: the planner has returned for a 24 s video.
C6_Witness ==
    /\ pc = "planned"
    /\ video_duration = MIN_CLIP_DURATION - 1
    /\ segments = <<>>

\* C7: with step = target_length - overlap <= 0 planning fails with a
\* ConfigurationError and emits no window: the planner does not return
\* normally under such a Config, and no window comes out of it.
C7_NonPositiveStepRejected ==
    step_size(cfg) <= 0 => (pc # "planned" /\ segments = <<>>)

\* --------------------------------------------------- claims on the batch
\* An encode that succeeded and passed validation: the call returned with exit
\* status 0, the output file exists and is larger than the size threshold.
Succeeded(o) ==
    /\ o.raised = "none"
    /\ o.returncode = 0
    /\ o.exists
    /\ o.file_size > MIN_FILE_SIZE

\* Positions inside create_all_30sec_clips.
BatchPcs == {"batch", "plan_loop", "planned", "loop", "invoke", "ffmpeg", "validate",
             "collect"}

\* Number of windows among the first k attempted whose encode succeeded.
SucceededUpTo(k) ==
    Cardinality({m \in 1..k : Succeeded(attempts[m].outcome)})

\* The batch has returned: every window was attempted once, in plan order, and
\* created_clips holds exactly the windows whose encode succeeded, in plan order.
BatchResult ==
    pc \in {"report_msg", "report", "complete"} =>
        /\ Len(attempts) = Len(segments)
        /\ \A k \in 1..Len(attempts) : attempts[k].clip = segments[k].clip_number
        /\ Len(created_clips) = SucceededUpTo(Len(attempts))
        /\ \A k \in 1..Len(attempts) :
              Succeeded(attempts[k].outcome) =>
                 /\ created_clips[SucceededUpTo(k)].clip_number = segments[k].clip_number
                 /\ created_clips[SucceededUpTo(k)].start_time = segments[k].start_time
                 /\ created_clips[SucceededUpTo(k)].end_time = segments[k].end_time
                 /\ created_clips[SucceededUpTo(k)].duration = segments[k].duration
        /\ Len(created_clips) =
              Len(segments)
              - Cardinality({k \in 1..Len(attempts) : ~Succeeded(attempts[k].outcome)})

\* C8: whatever the per-window encode outcomes, create_all_30sec_clips never
\* raises (control leaves it only by its return) and returns exactly the
\* windows whose encode succeeded and passed validation, in plan order; a
\* failed window does not stop the later ones from being attempted, so the
\* number of artifacts is planned windows minus failed windows.
C8_BatchToleratesFailures ==
    [][/\ pc \in BatchPcs => pc' \in BatchPcs \cup {"report_msg"}
       /\ BatchResult']_vars

\* C8 witness: a three-window batch has returned with the second window failed
\* for a missing output file and the other two created.
C8_Witness ==
    /\ pc = "report_msg"
    /\ Len(segments) = 3
    /\ Len(created_clips) = 2
    /\ Len(attempts) = 3
    /\ attempts[2].outcome.raised = "none"
    /\ attempts[2].outcome.returncode = 0
    /\ ~attempts[2].outcome.exists
    /\ created_clips[2].clip_number = 3

\* The transcode invocations of a run whose plan is segs: every window once, in
\* index order, each invocation followed by the end of its validation.
ExpectedEvents(segs) ==
    [k \in 1..(2 * Len(segs)) |->
        [ev |-> IF k % 2 = 1 THEN "invoke" ELSE "done",
         clip |-> segs[(k + 1) \div 2].clip_number]]

\* C9: the transcode invocations of a run are the plan in index order, every
\* planned window invoked once, never retried and never skipped, and window
\* i+1 is invoked only after invocation and validation of window i have ended.
C9_SequentialOncePerWindow ==
    /\ Len(events) <= 2 * Len(segments)
    /\ events = SubSeq(ExpectedEvents(segments), 1, Len(events))
    /\ pc \in {"report_msg", "report", "complete"} => events = ExpectedEvents(segments)
    /\ pc \in {"ffmpeg", "validate"} =>
          /\ Len(events) = 2 * i + 1
          /\ events[Len(events)] = [ev |-> "invoke", clip |-> i + 1]
    /\ pc \in {"loop", "invoke"} => Len(events) = 2 * i
    /\ pc = "collect" => Len(events) = 2 * i + 2

\* C9 witness: the third window is being transcoded after the first two were
\* invoked and validated, the first of them having failed.
C9_Witness ==
    /\ pc = "ffmpeg"
    /\ i = 2
    /\ Len(events) = 5
    /\ ~Succeeded(attempts[1].outcome)
    /\ created_clips # <<>>

Abs(x) == IF x < 0 THEN -x ELSE x

\* C11 as stated: the coverage in a built report is exactly the sum of the
\* clip durations divided by the source duration (as a percentage), and 0
\* when the source duration is 0.
C11_CoverageExactRatio ==
    report.kind = "report" =>
        IF report.original_video_duration > 0
        THEN report.video_coverage_percentage * report.original_video_duration
                 = 100 * 100 * report.total_duration_generated
        ELSE report.video_coverage_percentage = 0

\* C11: for every non-empty clip list a report is built whatever the source
\* duration is (no division by zero); its coverage is the percentage
\* 100 * sum of the clip durations / source duration rounded to two decimals,
\* and 0 when the source duration is 0.
C11_CoverageRoundedPercentage ==
    /\ (pc = "report" /\ created_clips # <<>>) => ENABLED ReportBuilt
    /\ report.kind = "report" =>
          /\ report.total_duration_generated = SumDurations(created_clips)
          /\ report.original_video_duration = metadata_duration
          /\ IF report.original_video_duration > 0
             THEN 2 * Abs(report.video_coverage_percentage * report.original_video_duration
                          - 100 * 100 * report.total_duration_generated)
                      <= report.original_video_duration
             ELSE report.video_coverage_percentage = 0

\* a report built from two clips for a source whose metadata has duration 0
C11_Witness ==
    /\ report.kind = "report"
    /\ report.total_clips_created = 2
    /\ report.total_duration_generated > 0
    /\ report.original_video_duration = 0
    /\ report.video_coverage_percentage = 0

\* C12 as stated: a run whose batch produced no clip (empty plan, or every
\* encode failed) has the empty list turned into an empty result by the
\* report building and finishes in status 'complete' with 0 clips.
C12_ZeroClipRunCompletes ==
    (pc = "idle" /\ report.kind = "message") =>
        /\ progress_state.status = "complete"
        /\ progress_state.total_clips = 0
        /\ response = "report"

\* C12, what the code does instead: status 'complete' is never published
\* with 0 clips.
C12_CompleteHasClips ==
    progress_state.status = "complete" => progress_state.total_clips > 0

\* ------------------------------------------------ progress record claims
\* the texts the milestones write (lines 87-95, 404-446, 209)
MilestoneTexts ==
    {"Starting download...", "Downloading YouTube video...", "Downloading...",
     "Download complete, processing...", "Download complete!",
     "Calculating clip segments...", "Generating N shorts...", "Generating shorts...",
     "Generating clip", "Creating final report...", "Successfully generated"}

\* C13 as stated: every change of the progress record, on the error path
\* too, replaces all six fields in one step, so no poll returns status
\* 'error' without the captured error, or with the message of an earlier
\* milestone.
C13_AtomicFullOverwrite ==
    get_progress.status = "error" =>
        /\ get_progress.error # None
        /\ get_progress.message.text \notin MilestoneTexts

\* ------------------------------------------------------- handler claims
\* C14: when the download fails the run is aborted: no window is planned,
\* none is encoded, no report is built; the handler goes straight to its
\* except block and ends with the HTTP 500 error response and the progress
\* record in status 'error' holding the captured message.
C14_FetchFailureAborts ==
    err = "DownloadError" =>
        /\ pc \in {"except", "except_error", "idle"}
        /\ segments = <<>>
        /\ events = <<>>
        /\ attempts = <<>>
        /\ created_clips = <<>>
        /\ report.kind = None
        /\ pc = "idle" =>
              /\ response = "500"
              /\ get_progress.status = "error"
              /\ get_progress.error = "DownloadError"

\* a run whose download failed has ended
C14_Witness ==
    /\ pc = "idle"
    /\ err = "DownloadError"
    /\ response = "500"
    /\ get_progress.status = "error"
    /\ get_progress.error = "DownloadError"

\* ------------------------------------------------ further planner claims
\* C15: when the duration is k * step + CLIP_DURATION for some k >= 0, the
\* plan has no window marked final and no window shorter than CLIP_DURATION.
C15_ExactFitNoFinal ==
    (/\ pc = "planned"
     /\ video_duration >= cfg.CLIP_DURATION
     /\ (video_duration - cfg.CLIP_DURATION) % step_size(cfg) = 0) =>
        \A j \in 1..Len(segments) :
            /\ ~segments[j].is_final_clip
            /\ segments[j].duration >= cfg.CLIP_DURATION

\* the plan of an 80 s video (k = 2): three full windows, the last ending at 80
C15_Witness ==
    /\ pc = "planned"
    /\ video_duration = 2 * step_size(cfg) + cfg.CLIP_DURATION
    /\ Len(segments) = 3
    /\ segments[3].end_time = video_duration
    /\ ~segments[3].is_final_clip

\* ------------------------------------------------- batch progress claims
\* the number of windows whose encode has returned
FinishedEncodes == Cardinality({j \in 1..Len(events) : events[j].ev = "done"})

\* C16 as stated: the snapshot for window k of N is written once that
\* window's encode has finished, with progress 40 + (k / N) * 50 and
\* current_clip = k, so current_clip never exceeds the number of finished
\* encodes and every batch progress lies in 40..90.
C16_ProgressAfterEncode ==
    get_progress.message.text = "Generating clip" =>
        /\ get_progress.current_clip <= FinishedEncodes
        /\ get_progress.progress
               = 40 + (get_progress.current_clip * 50) \div get_progress.total_clips
        /\ get_progress.progress \in 40..90

\* C16: the snapshot for window k of N is written before that window's
\* encode starts, when k - 1 encodes have finished, with progress
\* 40 + ((k - 1) / N) * 50 cut to a whole number, total_clips = N and
\* current_clip = k; current_clip is the number of finished encodes or one
\* more, and every batch progress lies in 40..90.
C16_ProgressBeforeEncode ==
    get_progress.message.text = "Generating clip" =>
        /\ get_progress.total_clips = Len(segments)
        /\ get_progress.current_clip \in 1..Len(segments)
        /\ get_progress.message.a = get_progress.current_clip
        /\ get_progress.message.b = get_progress.total_clips
        /\ FinishedEncodes \in {get_progress.current_clip - 1, get_progress.current_clip}
        /\ pc \in {"invoke", "ffmpeg", "validate"} =>
              FinishedEncodes = get_progress.current_clip - 1
        /\ get_progress.progress
               = 40 + ((get_progress.current_clip - 1) * 50) \div get_progress.total_clips
        /\ get_progress.progress \in 40..90

\* the snapshot of window 2 of 3 is out and its encode has not started
C16_Witness ==
    /\ pc = "invoke"
    /\ get_progress.message.text = "Generating clip"
    /\ get_progress.current_clip = 2
    /\ get_progress.total_clips = 3
    /\ get_progress.progress = 56
    /\ FinishedEncodes = 1

\* --------------------------------------------------- termination claims
TerminalStatuses == {"complete", "error"}

\* C17, termination: every run that begins with a url reaches the end of the
\* handler with the record in status 'complete', or in status 'error' with
\* the captured message in the error field.
C17_RunTerminates ==
    (pc = "start_download") ~>
        /\ pc = "idle"
        /\ \/ get_progress.status = "complete"
           \/ get_progress.status = "error" /\ get_progress.error = err /\ err # None

\* C17, the record at rest: once the status is 'complete' or 'error' it
\* changes only when the next run begins, that is by the reset of a request
\* that carries a url.
C17_TerminalUntilNextRun ==
    [][(/\ progress_state.status \in TerminalStatuses
        /\ progress_state'.status # progress_state.status) => pc' = "start_download"]_vars

\* --------------------------------------------- coverage and count claims
\* C18: for a plan of fewer than MAX_CLIPS_PER_VIDEO windows: if it is not
\* empty, its windows cover everything from 0 to the end of the last one
\* without a gap, and the tail left after the last window is at least 0 and
\* less than MIN_CLIP_DURATION - OVERLAP_DURATION, and is 0 when the last
\* window is final; if it is empty, the duration is below MIN_CLIP_DURATION.
C18_GapFreeCoverageShortTail ==
    (pc = "planned" /\ Len(segments) < cfg.MAX_CLIPS_PER_VIDEO) =>
        IF segments = <<>>
        THEN video_duration < cfg.MIN_CLIP_DURATION
        ELSE LET last == segments[Len(segments)]
                 tail == video_duration - last.end_time
             IN /\ segments[1].start_time = 0
                /\ \A j \in 1..(Len(segments) - 1) :
                       segments[j + 1].start_time <= segments[j].end_time
                /\ tail >= 0
                /\ tail < cfg.MIN_CLIP_DURATION - cfg.OVERLAP_DURATION
                /\ last.is_final_clip => tail = 0

\* a 74 s video: two full windows and the longest tail there can be, 19 s
C18_Witness ==
    /\ pc = "planned"
    /\ Len(segments) = 2
    /\ ~segments[2].is_final_clip
    /\ video_duration - segments[2].end_time
           = cfg.MIN_CLIP_DURATION - cfg.OVERLAP_DURATION - 1

\* C19: the clip count the handler estimates before encoding,
\* min(floor(duration / step) + 1, MAX_CLIPS_PER_VIDEO), is never less than
\* the number of windows the planner returns for that duration, which is
\* the total_clips the batch publishes.
C19_EstimateNotBelowPlan ==
    pc = "planned" => Len(segments) <= expected_clips(video_duration)

\* at 2600 s the cap makes the two equal; below the cap the estimate is larger
C19_Witness ==
    /\ pc = "planned"
    /\ video_duration = MaxDuration
    /\ Len(segments) = MAX_CLIPS_PER_VIDEO
    /\ expected_clips(video_duration) = MAX_CLIPS_PER_VIDEO

\* C20: whatever the sequence of requests and wherever a poll falls, the
\* error field of the record is non-null only in status 'error': every
\* milestone written through update_progress, the first one of a run that
\* follows a failed run included, leaves it null.
C20_ErrorOnlyInErrorStatus ==
    get_progress.error # None => get_progress.status = "error"

\* a failed run has ended with its message in the record, and the next
\* request can come in
C20_Witness ==
    /\ pc = "idle"
    /\ get_progress.status = "error"
    /\ get_progress.error = "FileNotFoundError"
    /\ ENABLED RequestUrl
====
